---- MODULE Spec2Model ----
(***************************************************************************)
(* A model of the chess database creator (src/database_creator.py):        *)
(*   - the canonicalizer (black_fen_to_white, make_fen_white),             *)
(*   - the aggregator (create_database_from_pgn) with its pre-filters,     *)
(*   - the splitter / serializer (data_writer_creator.writer),             *)
(*   - the scored child-position pipeline                                  *)
(*     (generate_database_with_child_values_tf_records).                   *)
(* Python strings are sequences of one-character strings.  The rules       *)
(* engine (MyBoard / python-chess) is not part of the sources; a small     *)
(* engine that moves pieces on the 64 squares stands in for it.            *)
(***************************************************************************)
EXTENDS Integers, Sequences, FiniteSets, TLC

(***************************************************************************)
(* Bounds of the model.                                                    *)
(***************************************************************************)
\* the largest number of games in the input, over all files
MaxGames == 2
\* the largest number of lines of the board database file
MaxLines == 3
\* the largest number of legal moves of the position of a line
MaxMoves == 2

(***************************************************************************)
(* Python string helpers.                                                  *)
(***************************************************************************)
LowerLetters == <<"a","b","c","d","e","f","g","h","k","n","p","q","r","w">>
UpperLetters == <<"A","B","C","D","E","F","G","H","K","N","P","Q","R","W">>

\* str.swapcase on one character
SwapChar(c) ==
  IF \E i \in 1..Len(LowerLetters) : LowerLetters[i] = c
    THEN UpperLetters[CHOOSE i \in 1..Len(LowerLetters) : LowerLetters[i] = c]
  ELSE IF \E i \in 1..Len(UpperLetters) : UpperLetters[i] = c
    THEN LowerLetters[CHOOSE i \in 1..Len(UpperLetters) : UpperLetters[i] = c]
  ELSE c

\* str.swapcase
SwapCase(s) == [i \in 1..Len(s) |-> SwapChar(s[i])]

\* x in s, for a one-character x
CharIn(x, s) == \E i \in 1..Len(s) : s[i] = x

\* list(reversed(l))
Reversed(l) == [i \in 1..Len(l) |-> l[Len(l) + 1 - i]]

RECURSIVE Join(_, _)
\* sep.join(parts)
Join(parts, sep) ==
  IF Len(parts) = 0 THEN <<>>
  ELSE IF Len(parts) = 1 THEN parts[1]
  ELSE parts[1] \o <<sep>> \o Join(Tail(parts), sep)

RECURSIVE SplitFrom(_, _, _, _)
SplitFrom(s, sep, i, cur) ==
  IF i > Len(s) THEN <<cur>>
  ELSE IF s[i] = sep THEN <<cur>> \o SplitFrom(s, sep, i + 1, <<>>)
  ELSE SplitFrom(s, sep, i + 1, Append(cur, s[i]))

\* s.split(sep), for a one-character sep
Split(s, sep) == SplitFrom(s, sep, 1, <<>>)

\* s.split(): on whitespace, empty pieces dropped
SplitWhite(s) == SelectSeq(Split(s, " "), LAMBDA f : Len(f) > 0)

DigitChars == <<"0","1","2","3","4","5","6","7","8","9">>

\* str(n) for 0 <= n < 100
Str(n) == IF n < 10 THEN <<DigitChars[n + 1]>>
          ELSE <<DigitChars[(n \div 10) + 1], DigitChars[(n % 10) + 1]>>

\* int(c) for a digit character
IntOf(c) == (CHOOSE i \in 1..10 : DigitChars[i] = c) - 1

IsDigit(c) == \E i \in 1..10 : DigitChars[i] = c

(***************************************************************************)
(* The rules engine: squares 0..63 (a1 = 0, h8 = 63), a position is a      *)
(* record of the board, the side to move, the castling rights, the         *)
(* en-passant square and the move counters.                                *)
(***************************************************************************)
Squares == 0..63
NoSquare == 0 - 1
EmptySq == "."
FileLetters == <<"a","b","c","d","e","f","g","h">>

FileOf(s) == s % 8
RankOf(s) == s \div 8

RECURSIVE CompressFrom(_, _, _)
\* one rank of the board as a FEN row: runs of empty squares become a digit
CompressFrom(cells, i, run) ==
  IF i > Len(cells)
    THEN (IF run > 0 THEN <<DigitChars[run + 1]>> ELSE <<>>)
  ELSE IF cells[i] = EmptySq THEN CompressFrom(cells, i + 1, run + 1)
  ELSE (IF run > 0 THEN <<DigitChars[run + 1]>> ELSE <<>>)
         \o <<cells[i]>> \o CompressFrom(cells, i + 1, 0)

RankCells(sq, r) == [f \in 1..8 |-> sq[8 * r + f - 1]]

\* the piece-placement field: ranks 8 down to 1, joined by "/"
PlacementField(pos) ==
  Join([k \in 1..8 |-> CompressFrom(RankCells(pos.sq, 8 - k), 1, 0)], "/")

CastlingField(pos) ==
  LET r == SelectSeq(<<"K","Q","k","q">>, LAMBDA c : c \in pos.castling)
  IN IF r = <<>> THEN <<"-">> ELSE r

EpField(pos) ==
  IF pos.ep = NoSquare THEN <<"-">>
  ELSE <<FileLetters[FileOf(pos.ep) + 1]>> \o Str(RankOf(pos.ep) + 1)

\* the_board.fen().split(): the six fields of the FEN
FenFields(pos) ==
  << PlacementField(pos), <<pos.turn>>, CastlingField(pos), EpField(pos),
     Str(pos.halfmove), Str(pos.fullmove) >>

\* the_board.fen()
Fen(pos) == Join(FenFields(pos), " ")

RECURSIVE ExpandRow(_)
\* a FEN row as its eight squares
ExpandRow(row) ==
  IF Len(row) = 0 THEN <<>>
  ELSE IF IsDigit(row[1])
    THEN [i \in 1..IntOf(row[1]) |-> EmptySq] \o ExpandRow(Tail(row))
  ELSE <<row[1]>> \o ExpandRow(Tail(row))

\* MyBoard(fen): the position a FEN describes
ParseFen(fen) ==
  LET f == SplitWhite(fen)
      rows == Split(f[1], "/")
      cells == [k \in 1..8 |-> ExpandRow(rows[k])]
  IN [ sq |-> [s \in Squares |-> cells[8 - RankOf(s)][FileOf(s) + 1]],
       turn |-> f[2][1],
       castling |-> {c \in {"K","Q","k","q"} : CharIn(c, f[3])},
       ep |-> IF f[4] = <<"-">> THEN NoSquare
              ELSE (CHOOSE i \in 1..8 : FileLetters[i] = f[4][1]) - 1
                     + 8 * (IntOf(f[4][2]) - 1),
       halfmove |-> IntOf(f[5][1]),
       fullmove |-> IntOf(f[6][1]),
       stack |-> 0 ]

StartFen ==
  << "r","n","b","q","k","b","n","r","/","p","p","p","p","p","p","p","p","/",
     "8","/","8","/","8","/","8","/",
     "P","P","P","P","P","P","P","P","/","R","N","B","Q","K","B","N","R",
     " ","w"," ","K","Q","k","q"," ","-"," ","0"," ","1" >>

\* MyBoard(), and the_board.reset()
StartPos == ParseFen(StartFen)

Move(f, t) == [from |-> f, to |-> t]

IsPawn(c) == c \in {"P", "p"}

\* board.is_capture(move)
IsCapture(pos, m) ==
  \/ pos.sq[m.to] # EmptySq
  \/ IsPawn(pos.sq[m.from]) /\ m.to = pos.ep /\ FileOf(m.from) # FileOf(m.to)

\* the castling rights a move from or to square s ends
RightsLostAt(s) ==
  CASE s = 4  -> {"K","Q"}
    [] s = 0  -> {"Q"}
    [] s = 7  -> {"K"}
    [] s = 60 -> {"k","q"}
    [] s = 56 -> {"q"}
    [] s = 63 -> {"k"}
    [] OTHER  -> {}

\* the_board.push(move): the move is made without a legality check
Push(pos, m) ==
  LET piece == pos.sq[m.from]
      dist == IF m.to > m.from THEN m.to - m.from ELSE m.from - m.to
      epCapture == IsPawn(piece) /\ m.to = pos.ep /\ FileOf(m.from) # FileOf(m.to)
      castle == piece \in {"K","k"} /\ dist = 2 /\ RankOf(m.from) = RankOf(m.to)
      rookFrom == IF m.to > m.from THEN m.from + 3 ELSE m.from - 4
      rookTo == IF m.to > m.from THEN m.from + 1 ELSE m.from - 1
      moved == [pos.sq EXCEPT ![m.from] = EmptySq, ![m.to] = piece]
      afterEp == IF epCapture
                   THEN [moved EXCEPT ![8 * RankOf(m.from) + FileOf(m.to)] = EmptySq]
                   ELSE moved
      afterCastle == IF castle
                       THEN [afterEp EXCEPT ![rookFrom] = EmptySq,
                                            ![rookTo] = pos.sq[rookFrom]]
                       ELSE afterEp
  IN [ sq |-> afterCastle,
       turn |-> IF pos.turn = "w" THEN "b" ELSE "w",
       castling |-> pos.castling \ (RightsLostAt(m.from) \cup RightsLostAt(m.to)),
       ep |-> IF IsPawn(piece) /\ dist = 16 THEN (m.from + m.to) \div 2 ELSE NoSquare,
       halfmove |-> IF IsPawn(piece) \/ IsCapture(pos, m) THEN 0 ELSE pos.halfmove + 1,
       fullmove |-> IF pos.turn = "b" THEN pos.fullmove + 1 ELSE pos.fullmove,
       stack |-> pos.stack + 1 ]

RECURSIVE PushAll(_, _)
\* the position after a sequence of moves
PushAll(pos, ms) == IF ms = <<>> THEN pos ELSE PushAll(Push(pos, Head(ms)), Tail(ms))

(***************************************************************************)
(* The recorded games of the input (the main lines read from the files).   *)
(***************************************************************************)
GameMoves ==
  << \* 1. e4 e5 2. Nf3
     << Move(12, 28), Move(52, 36), Move(6, 21) >>,
     \* 1. e4 d5 2. exd5 Qxd5
     << Move(12, 28), Move(51, 35), Move(28, 35), Move(59, 35) >>,
     \* 1. Nf3 Nf6 2. Rg1 Rg8
     << Move(6, 21), Move(62, 45), Move(7, 6), Move(63, 62) >> >>

GameIds == 1..Len(GameMoves)

(***************************************************************************)
(* The canonicalizer.                                                      *)
(***************************************************************************)
CastlingMirrorNoSwap(rights) ==
  SelectSeq(<<"K","Q","k","q","-">>, LAMBDA x : CharIn(x, rights))

CastlingMirrorCaseBlind(rights) ==
  SelectSeq(<<"K","Q","k","q","-">>,
            LAMBDA x : CharIn(x, rights) \/ CharIn(x, SwapCase(rights)))

\* "".join(map(lambda x: x if (x in split_fen[2].swapcase()) else '',
\*             ['K', 'Q', 'k', 'q', '-']))
CastlingMirror(rights) ==
  SelectSeq(<<"K","Q","k","q","-">>, LAMBDA x : CharIn(x, SwapCase(rights)))

\* "/".join(list(reversed([row.swapcase() for row in split_fen[0].split("/")])))
PlacementMirror(placement) ==
  LET rows == Split(placement, "/")
  IN Join(Reversed([k \in 1..Len(rows) |-> SwapCase(rows[k])]), "/")

EpMirrorKeepRank(ep) == ep

\* split_fen[3][0] + str(9 - int(split_fen[3][1])), unless split_fen[3] is '-'
EpMirror(ep) ==
  IF ep # <<"-">> THEN <<ep[1]>> \o Str(9 - IntOf(ep[2])) ELSE ep

\* the body of black_fen_to_white and of make_fen_white on the split FEN
MirrorFields(split_fen) ==
  [split_fen EXCEPT ![1] = PlacementMirror(split_fen[1]),
                    ![2] = <<"w">>,
                    ![3] = CastlingMirror(split_fen[3]),
                    ![4] = EpMirror(split_fen[4])]

\* black_fen_to_white(), with the_board the given position
BlackFenToWhite(pos) == Join(MirrorFields(SplitWhite(Fen(pos))), ",")

\* make_fen_white(fen)
MakeFenWhite(fen) ==
  LET split_fen == SplitWhite(fen)
  IN IF split_fen[2] = <<"w">> THEN fen
     ELSE Join(MirrorFields(split_fen), ",")

\* [info for index, info in enumerate(s.split(",")) if index in fen_elements_stored]
StoredFields(parts, stored) ==
  LET keep(i) == (i - 1) \in stored
      idx == SelectSeq([i \in 1..Len(parts) |-> i], keep)
  IN [k \in 1..Len(idx) |-> parts[idx[k]]]

\* white_move_string of create_database_from_pgn: the BoardKey of the_board
WhiteMoveString(pos, switch, stored) ==
  LET s == IF switch /\ pos.turn = "b"
             THEN BlackFenToWhite(pos)
             ELSE Join(SplitWhite(Fen(pos)), ",")
  IN Join(StoredFields(Split(s, ","), stored), ",")

\* the color-mirror image of a position: ranks reversed, colors swapped,
\* castling rights and en-passant square mirrored, the other side to move
ColorMirror(pos) ==
  [ sq |-> [s \in Squares |-> SwapChar(pos.sq[8 * (7 - RankOf(s)) + FileOf(s)])],
    turn |-> IF pos.turn = "w" THEN "b" ELSE "w",
    castling |-> {SwapChar(c) : c \in pos.castling},
    ep |-> IF pos.ep = NoSquare THEN NoSquare
           ELSE 8 * (7 - RankOf(pos.ep)) + FileOf(pos.ep),
    halfmove |-> pos.halfmove,
    fullmove |-> pos.fullmove,
    stack |-> pos.stack ]

(***************************************************************************)
(* State.                                                                  *)
(***************************************************************************)
VARIABLES
  \* the canonicalizer applied to one Black-to-move position
  mq,        \* the position
  mstage,    \* "start", "once", "twice", "keyed"
  monce,     \* black_fen_to_white() of mq
  mtwice,    \* black_fen_to_white() of monce read as a Black-to-move FEN
  mkonce,    \* make_fen_white of the FEN of mq
  mktwice,   \* make_fen_white of mkonce read as a Black-to-move FEN
  mstored,   \* fen_elements_stored of the keying step
  mkeyP,     \* the key of the White-to-move mirror image of mq
  mkeyQ      \* the key of mq

mirVars == <<mq, mstage, monce, mtwice, mkonce, mktwice, mstored, mkeyP, mkeyQ>>

VARIABLES
  \* create_database_from_pgn
  filenames,                   \* the input files, each the sequence of its games
  to_collect_filters,          \* the pre-filter chain
  post_collection_filters,     \* the post-filter chain
  switch_black_move_to_white,
  fen_elements_stored,
  the_board,                   \* the walked position
  configs,                     \* the corpus: entries [key, moves] in insertion order
  apc,                         \* "collect", "collected", "filtered", "writing", "done", "error"
  fidx, gidx, pidx,            \* the file, the game in it, the ply in it
  vetoed                       \* the number of plies of the current game vetoed so far

aggVars == <<filenames, to_collect_filters, post_collection_filters,
             switch_black_move_to_white, fen_elements_stored, the_board, configs,
             apc, fidx, gidx, pidx, vetoed>>

VARIABLES
  \* data_writer_creator and its writer
  file_ratios,                 \* the ratios, each [num, den]
  for_deep_pink_loss,          \* the triplet flags
  comparison_move_generator,   \* "my_comparison_move_generator" or "legal_moves"
  writers,                     \* per output file: [open, lines]
  number_of_boards,
  dict_iterator,               \* the number of entries the iterator has yielded
  didx,                        \* the position of the loop over zip(...)
  left,                        \* the passes left of the loop over range(...)
  taken,                       \* per destination, the corpus positions it was given
  last                         \* the entry of the latest pass and the records it wrote

wrVars == <<file_ratios, for_deep_pink_loss, comparison_move_generator, writers,
            number_of_boards, dict_iterator, didx, left, taken, last>>

VARIABLES
  \* generate_database_with_child_values_tf_records
  board_database,   \* the input file: for each line, the number of legal moves of its position
  batch_size,
  num_workers,
  index,            \* the number of lines the reading loop has taken
  lines,            \* the line numbers gathered for the next batch
  futures,          \* the submitted batches, in submission order
  output,           \* the records written to the TFRecordWriter
  writer_open,      \* the TFRecordWriter has not been closed
  cur_future,       \* the future whose records the collection loop is writing
  gpc               \* "reading", "collecting", "closed", "failed"

pipeVars == <<board_database, batch_size, num_workers, index, lines, futures,
              output, writer_open, cur_future, gpc>>

vars == <<mirVars, aggVars, wrVars, pipeVars>>

\* the canonicalizer's variables when another component runs
MirIdle ==
  /\ mq = StartPos
  /\ mstage = "idle"
  /\ monce = <<>> /\ mtwice = <<>> /\ mkonce = <<>> /\ mktwice = <<>>
  /\ mstored = {} /\ mkeyP = <<>> /\ mkeyQ = <<>>

\* the aggregator's variables when another component runs
AggIdle ==
  /\ filenames = <<>>
  /\ to_collect_filters = <<>>
  /\ post_collection_filters = <<>>
  /\ switch_black_move_to_white = TRUE
  /\ fen_elements_stored = {}
  /\ the_board = StartPos
  /\ configs = <<>>
  /\ apc = "idle"
  /\ fidx = 0 /\ gidx = 0 /\ pidx = 0 /\ vetoed = 0

NoEntry == [dest |-> 0, entry |-> 0, records |-> <<>>]

\* the writer's variables before data_writer is called
WrIdle ==
  /\ file_ratios = <<>>
  /\ for_deep_pink_loss = <<>>
  /\ comparison_move_generator = "none"
  /\ writers = <<>>
  /\ number_of_boards = 0
  /\ dict_iterator = 0
  /\ didx = 0
  /\ left = 0
  /\ taken = <<>>
  /\ last = NoEntry

\* the collection loop is not inside the records of a future
NoFuture == [future |-> 0, written |-> 0]

\* the pipeline's variables when another component runs
PipeIdle ==
  /\ board_database = <<>>
  /\ batch_size = 0
  /\ num_workers = 0
  /\ index = 0
  /\ lines = <<>>
  /\ futures = <<>>
  /\ output = <<>>
  /\ writer_open = FALSE
  /\ cur_future = NoFuture
  /\ gpc = "idle"

(***************************************************************************)
(* The filters.                                                            *)
(***************************************************************************)
NManDuring(k) == [kind |-> "during_search_n_man", n |-> k]
LeqMovesMade(k) == [kind |-> "during_search_leq_n_moves_made", n |-> k]
CaptureMove == [kind |-> "during_search_capture_move", n |-> 0]
NManPost(k) == [kind |-> "n_man", n |-> k]

\* chess.popcount(board.occupied)
Occupied(pos) == Cardinality({s \in Squares : pos.sq[s] # EmptySq})

\* filter(the_board, move) for the pre-filters the module provides
PreFilter(f, board, move) ==
  CASE f.kind = "during_search_n_man" -> Occupied(board) <= f.n
    [] f.kind = "during_search_leq_n_moves_made" -> board.stack <= f.n
    [] f.kind = "during_search_capture_move" -> IsCapture(board, move)

ShouldSaveIgnoringFilters(filters, board, move) == TRUE

\* should_save: no pre-filter of the chain returns true
ShouldSave(filters, board, move) ==
  \A i \in 1..Len(filters) : ~PreFilter(filters[i], board, move)

\* the characters of str that are in "KQRBNPkqrbnp": the counter of
\* n_man_filter_creator's filter, were its loop run to the end
PieceLetters(str) ==
  Cardinality({i \in 1..Len(str) :
                 CharIn(str[i], <<"K","Q","R","B","N","P","k","q","r","b","n","p">>)})

\* filter(str, data) for the post-filter the module provides: False as soon
\* as the counter exceeds n, True when the loop ends
PostFilter(f, str, data) ==
  IF PieceLetters(str) > f.n THEN FALSE ELSE TRUE

(***************************************************************************)
(* BoardInfo and the corpus.                                               *)
(***************************************************************************)
\* self.moves.get(move)
MovesGet(moves, move) ==
  IF \E i \in 1..Len(moves) : moves[i].move = move
    THEN moves[CHOOSE i \in 1..Len(moves) : moves[i].move = move].count
  ELSE 0

BoardInfoUpdateSetsOne(moves, move) ==
  IF MovesGet(moves, move) = 0
    THEN Append(moves, [move |-> move, count |-> 1])
  ELSE [i \in 1..Len(moves) |->
          IF moves[i].move = move
            THEN [moves[i] EXCEPT !.count = 1] ELSE moves[i]]

\* BoardInfo.update(move)
BoardInfoUpdate(moves, move) ==
  IF MovesGet(moves, move) = 0
    THEN Append(moves, [move |-> move, count |-> 1])
  ELSE [i \in 1..Len(moves) |->
          IF moves[i].move = move
            THEN [moves[i] EXCEPT !.count = @ + 1] ELSE moves[i]]

\* BoardInfo(move)
BoardInfoNew(move) == BoardInfoUpdate(<<>>, move)

HasKey(cfg, key) == \E i \in 1..Len(cfg) : cfg[i].key = key

ConfigsUpdateMovesToEnd(cfg, key, move) ==
  IF ~HasKey(cfg, key)
    THEN Append(cfg, [key |-> key, moves |-> BoardInfoNew(move)])
  ELSE LET i == CHOOSE i \in 1..Len(cfg) : cfg[i].key = key
       IN Append(SelectSeq(cfg, LAMBDA e : e.key # key),
                 [cfg[i] EXCEPT !.moves = BoardInfoUpdate(@, move)])

\* configs[white_move_string] = BoardInfo(move), or .update(move)
ConfigsUpdate(cfg, key, move) ==
  IF ~HasKey(cfg, key)
    THEN Append(cfg, [key |-> key, moves |-> BoardInfoNew(move)])
  ELSE [i \in 1..Len(cfg) |->
          IF cfg[i].key = key
            THEN [cfg[i] EXCEPT !.moves = BoardInfoUpdate(@, move)] ELSE cfg[i]]

(***************************************************************************)
(* create_database_from_pgn: the aggregation.                              *)
(***************************************************************************)
RECURSIVE SeqsUpTo(_, _)
\* the sequences over S of length 1..n
SeqsUpTo(S, n) ==
  IF n = 0 THEN {}
  ELSE LET shorter == SeqsUpTo(S, n - 1)
       IN {<<x>> : x \in S} \cup shorter
            \cup {Append(q, x) : q \in shorter, x \in S}

RECURSIVE TotalLen(_)
TotalLen(fs) == IF fs = <<>> THEN 0 ELSE Len(Head(fs)) + TotalLen(Tail(fs))

\* the inputs: files of at least one game each, MaxGames games in all
InputFiles ==
  {fs \in SeqsUpTo(SeqsUpTo(GameIds, MaxGames), MaxGames) : TotalLen(fs) <= MaxGames}

PreFilterChains ==
  { <<>>,
    <<NManDuring(6), LeqMovesMade(1), CaptureMove>>,
    <<NManDuring(32)>> }

PostFilterChains == { <<>>, <<NManPost(35)>> }

StoredChoices == { {0, 2}, {0, 2, 3} }

AggStart ==
  /\ the_board = StartPos
  /\ configs = <<>>
  /\ apc = "collect"
  /\ fidx = 1 /\ gidx = 1 /\ pidx = 1 /\ vetoed = 0

AggInit ==
  /\ MirIdle
  /\ WrIdle
  /\ PipeIdle
  /\ filenames \in InputFiles
  /\ to_collect_filters \in PreFilterChains
  /\ post_collection_filters \in PostFilterChains
  /\ switch_black_move_to_white \in BOOLEAN
  /\ fen_elements_stored \in StoredChoices
  /\ AggStart

CurGame == GameMoves[filenames[fidx][gidx]]

ResetKeepBoard(board) == board

\* the_board.reset()
Reset(board) == StartPos

\* one pass of the loop over cur_game.main_line(): lines 108 to 131
CollectPly ==
  /\ apc = "collect"
  /\ pidx <= Len(CurGame)
  /\ LET move == CurGame[pidx]
         should_save == ShouldSave(to_collect_filters, the_board, move)
         white_move_string ==
           WhiteMoveString(the_board, switch_black_move_to_white, fen_elements_stored)
     IN /\ configs' = IF should_save
                        THEN ConfigsUpdate(configs, white_move_string, move)
                        ELSE configs
        /\ vetoed' = IF should_save THEN vetoed ELSE vetoed + 1
        /\ the_board' = Push(the_board, move)
  /\ pidx' = pidx + 1
  /\ UNCHANGED <<filenames, to_collect_filters, post_collection_filters,
                 switch_black_move_to_white, fen_elements_stored, apc, fidx, gidx>>
  /\ UNCHANGED <<mirVars, wrVars, pipeVars>>

\* the main line is exhausted: the next game is read and the board reset
\* (lines 133, 134); after the last game of a file the file is closed and
\* the next one opened (lines 136, 98 to 105)
EndGame ==
  /\ apc = "collect"
  /\ pidx > Len(CurGame)
  /\ the_board' = Reset(the_board)
  /\ pidx' = 1
  /\ vetoed' = 0
  /\ IF gidx < Len(filenames[fidx])
       THEN gidx' = gidx + 1 /\ fidx' = fidx /\ apc' = apc
     ELSE IF fidx < Len(filenames)
       THEN gidx' = 1 /\ fidx' = fidx + 1 /\ apc' = apc
     ELSE gidx' = gidx /\ fidx' = fidx /\ apc' = "collected"
  /\ UNCHANGED <<filenames, to_collect_filters, post_collection_filters,
                 switch_black_move_to_white, fen_elements_stored, configs>>
  /\ UNCHANGED <<mirVars, wrVars, pipeVars>>

ToDeleteNothing(cfg, filters) == {}

\* the entries a post-filter matches: to_delete of lines 139 to 145
ToDelete(cfg, filters) ==
  {i \in 1..Len(cfg) :
     \E j \in 1..Len(filters) : PostFilter(filters[j], cfg[i].key, cfg[i].moves)}

\* del configs[cur_str] for every entry of to_delete
DeleteAt(cfg, del) ==
  LET idx == SelectSeq([i \in 1..Len(cfg) |-> i], LAMBDA i : i \notin del)
  IN [k \in 1..Len(idx) |-> cfg[idx[k]]]

\* lines 138 to 149: the post-collection filters are applied
ApplyPostFilters ==
  /\ apc = "collected"
  /\ configs' = DeleteAt(configs, ToDelete(configs, post_collection_filters))
  /\ apc' = "filtered"
  /\ UNCHANGED <<filenames, to_collect_filters, post_collection_filters,
                 switch_black_move_to_white, fen_elements_stored, the_board,
                 fidx, gidx, pidx, vetoed>>
  /\ UNCHANGED <<mirVars, wrVars, pipeVars>>

AggNext == CollectPly \/ EndGame \/ ApplyPostFilters

SpecAgg == AggInit /\ [][AggNext]_vars

(***************************************************************************)
(* The rules engine, continued: move generation and the board encoding of  *)
(* the output files.                                                       *)
(***************************************************************************)
IsWhitePiece(c) == c \in {"K","Q","R","B","N","P"}
IsBlackPiece(c) == c \in {"k","q","r","b","n","p"}

OwnPiece(pos, c) == IF pos.turn = "w" THEN IsWhitePiece(c) ELSE IsBlackPiece(c)
EnemyPiece(pos, c) == IF pos.turn = "w" THEN IsBlackPiece(c) ELSE IsWhitePiece(c)

Abs(x) == IF x < 0 THEN 0 - x ELSE x

\* the moves the engine generates: the knight moves and the pawn captures of
\* the side to move (the other pieces' moves are left out of the stand-in)
IsGenerated(pos, m) ==
  LET piece == pos.sq[m.from]
      df == FileOf(m.to) - FileOf(m.from)
      dr == RankOf(m.to) - RankOf(m.from)
  IN /\ OwnPiece(pos, piece)
     /\ \/ /\ piece \in {"N", "n"}
           /\ {Abs(df), Abs(dr)} = {1, 2}
           /\ ~OwnPiece(pos, pos.sq[m.to])
        \/ /\ IsPawn(piece)
           /\ Abs(df) = 1
           /\ dr = (IF pos.turn = "w" THEN 1 ELSE 0 - 1)
           /\ (EnemyPiece(pos, pos.sq[m.to]) \/ m.to = pos.ep)

AllMoves == [k \in 1..(64 * 64) |-> Move((k - 1) \div 64, (k - 1) % 64)]

\* board.legal_moves, in the order of the from and to squares
LegalMoves(pos) == SelectSeq(AllMoves, LAMBDA m : IsGenerated(pos, m))

\* b.database_board_representation(): the 64 squares from a8 to h1, "1" for
\* an empty square, "0" for the en-passant square, "C" or "c" for a rook
\* that may still castle
DatabaseBoardRepresentation(pos) ==
  [k \in 1..64 |->
     LET s == 8 * (7 - ((k - 1) \div 8)) + ((k - 1) % 8)
     IN IF s = pos.ep THEN "0"
        ELSE IF pos.sq[s] = EmptySq THEN "1"
        ELSE IF \/ s = 7 /\ "K" \in pos.castling
                \/ s = 0 /\ "Q" \in pos.castling THEN "C"
        ELSE IF \/ s = 63 /\ "k" \in pos.castling
                \/ s = 56 /\ "q" \in pos.castling THEN "c"
        ELSE pos.sq[s]]

(***************************************************************************)
(* data_writer_creator: the splitter / serializer.                         *)
(***************************************************************************)
Ratio(n, d) == [num |-> n, den |-> d]

FloorOfRatioPlusOne(ratio, n) == ((ratio.num * n) \div ratio.den) + 1

FloorOfRatioHalved(ratio, n) == (ratio.num * n) \div (2 * ratio.den)

\* int(math.floor(ratio * number_of_boards)), the ratio an exact fraction
FloorOfRatio(ratio, n) == (ratio.num * n) \div ratio.den

\* current_line_to_fen(line)
CurrentLineToFen(line) ==
  LET parts == Split(line, ",")
      hacked_part_fen_array == <<parts[1], <<"w">>>> \o Tail(parts)
  IN Join(hacked_part_fen_array, " ") \o <<" ", "0", " ", "1">>

RECURSIVE Flatten(_)
\* "".join(parts)
Flatten(ss) == IF ss = <<>> THEN <<>> ELSE Head(ss) \o Flatten(Tail(ss))

\* switch_from_blacks_move(the_str)
SwitchFromBlacksMove(the_str) ==
  LET rows == [j \in 1..8 |-> SubSeq(the_str, 8 * (j - 1) + 1, 8 * j)]
  IN SwapCase(Flatten(Reversed(rows)))

\* my_comparison_move_generator(board, data)
MyComparisonMoveGenerator(board, moves) ==
  SelectSeq(LegalMoves(board),
            LAMBDA m : ~IsCapture(board, m) /\ MovesGet(moves, m) = 0)

DefaultQuietUnseenOnly(board, moves) ==
  SelectSeq(LegalMoves(board),
            LAMBDA m : ~IsCapture(board, m) /\ MovesGet(moves, m) = 0)

\* the default of line 261: lambda b, d: b.legal_moves
DefaultComparisonMoveGenerator(board, moves) == LegalMoves(board)

\* comparison_move_generator(temp_board, cur_data): the generator of the
\* module, the default, or a generator of the caller that yields no move
ComparisonMoves(gen, board, moves) ==
  CASE gen = "my_comparison_move_generator" -> MyComparisonMoveGenerator(board, moves)
    [] gen = "legal_moves" -> DefaultComparisonMoveGenerator(board, moves)
    [] gen = "yields_no_move" -> <<>>

RECURSIVE MaxCount(_)
\* max(cur_data.moves.values())
MaxCount(moves) ==
  IF Len(moves) = 1 THEN moves[1].count
  ELSE LET rest == MaxCount(Tail(moves))
       IN IF moves[1].count > rest THEN moves[1].count ELSE rest

MostChosenMovesFirstOnly(moves) ==
  LET max_move_count == MaxCount(moves)
      top == SelectSeq(moves, LAMBDA e : e.count = max_move_count)
  IN <<top[1].move>>

\* most_chosen_moves: the moves chosen max_move_count times
MostChosenMoves(moves) ==
  LET max_move_count == MaxCount(moves)
      top == SelectSeq(moves, LAMBDA e : e.count = max_move_count)
  IN [i \in 1..Len(top) |-> top[i].move]

\* switch_from_blacks_move(board_to_str_fn(temp_board)) after temp_board.push(move)
ChildEncoding(board, move) ==
  SwitchFromBlacksMove(DatabaseBoardRepresentation(Push(board, move)))

TripletRecordsAnchorsAlone(cur_str, cur_data, gen) ==
  LET temp_board == ParseFen(CurrentLineToFen(cur_str))
      most_chosen_moves == MostChosenMoves(cur_data)
      cur_board_rep == DatabaseBoardRepresentation(temp_board)
      data_strs == [i \in 1..Len(most_chosen_moves) |->
                      cur_board_rep \o ChildEncoding(temp_board, most_chosen_moves[i])]
      negatives == ComparisonMoves(gen, temp_board, cur_data)
  IN IF negatives = <<>>
       THEN [i \in 1..Len(data_strs) |-> data_strs[i] \o <<"\n">>]
       ELSE Flatten([n \in 1..Len(negatives) |->
                       [i \in 1..Len(data_strs) |->
                          data_strs[i] \o ChildEncoding(temp_board, negatives[n])
                            \o <<"\n">>]])

\* lines 301 to 324: the records written for one entry of a triplet
\* destination, one write for each comparison move
TripletRecords(cur_str, cur_data, gen) ==
  LET temp_board == ParseFen(CurrentLineToFen(cur_str))
      most_chosen_moves == MostChosenMoves(cur_data)
      cur_board_rep == DatabaseBoardRepresentation(temp_board)
      data_strs == [i \in 1..Len(most_chosen_moves) |->
                      cur_board_rep \o ChildEncoding(temp_board, most_chosen_moves[i])]
      negatives == ComparisonMoves(gen, temp_board, cur_data)
  IN Flatten([n \in 1..Len(negatives) |->
                [i \in 1..Len(data_strs) |->
                   data_strs[i] \o ChildEncoding(temp_board, negatives[n]) \o <<"\n">>]])

\* the text of a move: its from and to squares
Uci(m) ==
  <<FileLetters[FileOf(m.from) + 1]>> \o Str(RankOf(m.from) + 1)
    \o <<FileLetters[FileOf(m.to) + 1]>> \o Str(RankOf(m.to) + 1)

\* a BoardInfo as move:count pairs, joined by commas
MoveCountPairs(cur_data) ==
  Join([i \in 1..Len(cur_data) |->
          Uci(cur_data[i].move) \o <<":">> \o Str(cur_data[i].count)], ",")

PlainRecordsWithInfo(cur_str, cur_data) ==
  << cur_str \o <<",">> \o MoveCountPairs(cur_data) \o <<"\n">> >>

\* line 326: the record written for one entry of a plain destination
PlainRecords(cur_str, cur_data) == << cur_str \o <<"\n">> >>

\* the configurations of the writer: the two of the module's own runs
\* (lines 383, 384 and 562, 563), then ratios that leave a remainder, that
\* give an empty slice, and that ask for more entries than there are, a
\* generator that yields no move, and lists of different lengths; files is
\* the number of output filenames
WriterConfigs ==
  { [ratios |-> <<Ratio(72, 100), Ratio(8, 100), Ratio(20, 100)>>, files |-> 3,
     flags |-> <<TRUE, TRUE, TRUE>>, gen |-> "my_comparison_move_generator"],
    [ratios |-> <<Ratio(1, 1)>>, files |-> 1,
     flags |-> <<FALSE>>, gen |-> "legal_moves"],
    [ratios |-> <<Ratio(1, 2), Ratio(1, 2)>>, files |-> 2,
     flags |-> <<FALSE, TRUE>>, gen |-> "legal_moves"],
    [ratios |-> <<Ratio(1, 3), Ratio(1, 3)>>, files |-> 2,
     flags |-> <<TRUE, FALSE>>, gen |-> "my_comparison_move_generator"],
    [ratios |-> <<Ratio(0, 1), Ratio(1, 1)>>, files |-> 2,
     flags |-> <<FALSE, TRUE>>, gen |-> "my_comparison_move_generator"],
    [ratios |-> <<Ratio(7, 10), Ratio(7, 10)>>, files |-> 2,
     flags |-> <<FALSE, FALSE>>, gen |-> "legal_moves"],
    [ratios |-> <<Ratio(1, 1)>>, files |-> 1,
     flags |-> <<TRUE>>, gen |-> "yields_no_move"],
    [ratios |-> <<Ratio(1, 2), Ratio(1, 2)>>, files |-> 2,
     flags |-> <<FALSE>>, gen |-> "legal_moves"] }

Min(a, b) == IF a < b THEN a ELSE b

\* the length of zip(writers, file_ratios, for_deep_pink_loss)
ZipLen == Min(Len(writers), Min(Len(file_ratios), Len(for_deep_pink_loss)))

\* data_writer(configs, output_filenames) is called: lines 282 to 290, and
\* the first pass of the loop over zip(...) down to its range(...)
WriterOpen ==
  /\ apc = "filtered"
  /\ \E c \in WriterConfigs :
       /\ file_ratios' = c.ratios
       /\ for_deep_pink_loss' = c.flags
       /\ comparison_move_generator' = c.gen
       /\ writers' = [i \in 1..c.files |-> [open |-> TRUE, lines |-> <<>>]]
       /\ taken' = [i \in 1..Len(c.ratios) |-> <<>>]
       /\ left' = FloorOfRatio(c.ratios[1], Len(configs))
  /\ number_of_boards' = Len(configs)
  /\ dict_iterator' = 0
  /\ didx' = 1
  /\ last' = NoEntry
  /\ apc' = "writing"
  /\ UNCHANGED <<filenames, to_collect_filters, post_collection_filters,
                 switch_black_move_to_white, fen_elements_stored, the_board, configs,
                 fidx, gidx, pidx, vetoed>>
  /\ UNCHANGED <<mirVars, pipeVars>>

\* one pass of the loop over range(...): lines 295 to 328
WriteEntry ==
  /\ apc = "writing"
  /\ left > 0
  /\ dict_iterator < Len(configs)
  /\ LET cur == configs[dict_iterator + 1]
         records == IF for_deep_pink_loss[didx]
                      THEN TripletRecords(cur.key, cur.moves, comparison_move_generator)
                      ELSE PlainRecords(cur.key, cur.moves)
     IN /\ writers' = [writers EXCEPT ![didx].lines = @ \o records]
        /\ last' = [dest |-> didx, entry |-> dict_iterator + 1, records |-> records]
  /\ taken' = [taken EXCEPT ![didx] = Append(@, dict_iterator + 1)]
  /\ dict_iterator' = dict_iterator + 1
  /\ left' = left - 1
  /\ UNCHANGED <<file_ratios, for_deep_pink_loss, comparison_move_generator,
                 number_of_boards, didx>>
  /\ UNCHANGED aggVars
  /\ UNCHANGED <<mirVars, pipeVars>>

\* next(dict_iterator) on the exhausted iterator: StopIteration leaves the writer
WriterExhausted ==
  /\ apc = "writing"
  /\ left > 0
  /\ dict_iterator >= Len(configs)
  /\ apc' = "error"
  /\ UNCHANGED <<filenames, to_collect_filters, post_collection_filters,
                 switch_black_move_to_white, fen_elements_stored, the_board, configs,
                 fidx, gidx, pidx, vetoed>>
  /\ UNCHANGED wrVars
  /\ UNCHANGED <<mirVars, pipeVars>>

\* the loop over range(...) ends: line 330, then the next destination of
\* zip(...) or the return of the writer
CloseDestination ==
  /\ apc = "writing"
  /\ left = 0
  /\ writers' = [writers EXCEPT ![didx].open = FALSE]
  /\ IF didx < ZipLen
       THEN /\ didx' = didx + 1
            /\ left' = FloorOfRatio(file_ratios[didx + 1], number_of_boards)
            /\ apc' = apc
       ELSE /\ didx' = didx
            /\ left' = left
            /\ apc' = "done"
  /\ UNCHANGED <<file_ratios, for_deep_pink_loss, comparison_move_generator,
                 number_of_boards, dict_iterator, taken, last>>
  /\ UNCHANGED <<filenames, to_collect_filters, post_collection_filters,
                 switch_black_move_to_white, fen_elements_stored, the_board, configs,
                 fidx, gidx, pidx, vetoed>>
  /\ UNCHANGED <<mirVars, pipeVars>>

WriterNext == WriterOpen \/ WriteEntry \/ WriterExhausted \/ CloseDestination

\* the whole of create_database_from_pgn, run as the module runs it: the
\* placement, castling and en-passant fields stored, Black's positions mirrored
Init ==
  /\ MirIdle
  /\ WrIdle
  /\ PipeIdle
  /\ filenames \in InputFiles
  /\ to_collect_filters \in { <<>>, <<NManDuring(32)>> }
  /\ post_collection_filters \in PostFilterChains
  /\ switch_black_move_to_white = TRUE
  /\ fen_elements_stored = {0, 2, 3}
  /\ AggStart

Next == CollectPly \/ EndGame \/ ApplyPostFilters
          \/ WriterOpen \/ WriteEntry \/ WriterExhausted \/ CloseDestination

Spec == Init /\ [][Next]_vars

(***************************************************************************)
(* generate_database_with_child_values_tf_records: the scored              *)
(* child-position pipeline.  A line of the input stands for its position;  *)
(* the position's legal moves are numbered 1..c and the child reached by   *)
(* move k of line l is <<l, k>>.  The evaluator's answer is a sequence of   *)
(* scores, the score at place p written p.                                 *)
(***************************************************************************)
RECURSIVE SeqsOfLen(_, _)
SeqsOfLen(S, n) ==
  IF n = 0 THEN {<<>>}
  ELSE {Append(q, x) : q \in SeqsOfLen(S, n - 1), x \in S}

BatchSizes == {1, 2}
WorkerCounts == {1, 2}

CumsumNotSummed(counts) == counts

RECURSIVE Cumsum(_)
\* np.cumsum(counts)
Cumsum(counts) ==
  IF counts = <<>> THEN <<>>
  ELSE LET front == Cumsum(SubSeq(counts, 1, Len(counts) - 1))
       IN Append(front, (IF front = <<>> THEN 0 ELSE front[Len(front)])
                          + counts[Len(counts)])

\* ary[a:b]
Slice(ary, a, b) ==
  LET hi == Min(b, Len(ary))
  IN IF a < hi THEN SubSeq(ary, a + 1, hi) ELSE <<>>

\* np.split(ary, indices): ary[:i1], ary[i1:i2], ..., ary[ik:]
NpSplit(ary, indices) ==
  [j \in 1..(Len(indices) + 1) |->
     Slice(ary,
           IF j = 1 THEN 0 ELSE indices[j - 1],
           IF j <= Len(indices) THEN indices[j] ELSE Len(ary))]

\* lengths[:-1]
AllButLast(q) == SubSeq(q, 1, Len(q) - 1)

\* line 482: the legal moves of the positions of a batch
BatchMoves(batch) ==
  [j \in 1..Len(batch) |-> [k \in 1..board_database[batch[j]] |-> k]]

\* line 486: np.concatenate of the children of every position of the batch
BatchChildren(batch) ==
  LET moves == BatchMoves(batch)
  IN Flatten([j \in 1..Len(batch) |->
                [k \in 1..Len(moves[j]) |-> <<batch[j], moves[j][k]>>]])

\* create_serialized_example(the_str, moves, results)
CreateSerializedExample(line, moves, results) ==
  [board |-> line, moves |-> moves, move_scores |-> results]

\* lines 483 to 497 of lines_to_serialized_example, given what
\* node_batch_eval_fn returned for the children
LinesToSerializedExample(batch, scores) ==
  LET moves == BatchMoves(batch)
      lengths == Cumsum([j \in 1..Len(moves) |-> Len(moves[j])])
      the_results == NpSplit(scores, AllButLast(lengths))
      the_moves == NpSplit(Flatten(moves), AllButLast(lengths))
  IN [j \in 1..Len(batch) |->
        CreateSerializedExample(batch[j], the_moves[j], the_results[j])]

\* what node_batch_eval_fn may return for n children: a score for each, or
\* one score too few, or one too many
EvaluatorAnswers(n) ==
  { [p \in 1..n |-> p], [p \in 1..(n + 1) |-> p] }
    \cup (IF n > 0 THEN { [p \in 1..(n - 1) |-> p] } ELSE {})

PipeInit ==
  /\ MirIdle
  /\ AggIdle
  /\ WrIdle
  /\ board_database \in UNION { SeqsOfLen(0..MaxMoves, n) : n \in 0..MaxLines }
  /\ batch_size \in BatchSizes
  /\ num_workers \in WorkerCounts
  /\ index = 0
  /\ lines = <<>>
  /\ futures = <<>>
  /\ output = <<>>
  /\ writer_open = TRUE
  /\ cur_future = NoFuture
  /\ gpc = "reading"


\* index % batch_size == 0 and index != 0
ShouldSubmit(i) == i % batch_size = 0 /\ i # 0

\* one pass of the reading loop: lines 506 to 510
ReadLine ==
  /\ gpc = "reading"
  /\ index < Len(board_database)
  /\ LET gathered == Append(lines, index + 1)
     IN IF ShouldSubmit(index)
          THEN /\ futures' = Append(futures,
                                    [lines |-> gathered, state |-> "pending",
                                     children |-> <<>>, scores |-> <<>>,
                                     result |-> <<>>, collected |-> FALSE])
               /\ lines' = <<>>
          ELSE /\ futures' = futures
               /\ lines' = gathered
  /\ index' = index + 1
  /\ UNCHANGED <<board_database, batch_size, num_workers, output, writer_open, cur_future, gpc>>
  /\ UNCHANGED <<mirVars, aggVars, wrVars>>

\* the file is exhausted: the reading loop ends and as_completed begins
EndOfFile ==
  /\ gpc = "reading"
  /\ index = Len(board_database)
  /\ gpc' = "collecting"
  /\ UNCHANGED <<board_database, batch_size, num_workers, index, lines, futures,
                 output, writer_open, cur_future>>
  /\ UNCHANGED <<mirVars, aggVars, wrVars>>

Running == {f \in 1..Len(futures) : futures[f].state = "running"}

PoolNeverFull == TRUE

\* ThreadPoolExecutor(num_workers): a worker thread of the pool is idle
FreeWorker == Cardinality(Running) < num_workers

\* a free worker thread of the pool takes the oldest waiting batch and runs
\* lines_to_serialized_example up to its call of node_batch_eval_fn
WorkerStart ==
  /\ FreeWorker
  /\ \E f \in 1..Len(futures) :
       /\ futures[f].state = "pending"
       /\ \A g \in 1..(f - 1) : futures[g].state # "pending"
       /\ futures' = [futures EXCEPT ![f].state = "running",
                                     ![f].children = BatchChildren(futures[f].lines)]
  /\ UNCHANGED <<board_database, batch_size, num_workers, index, lines,
                 output, writer_open, cur_future, gpc>>
  /\ UNCHANGED <<mirVars, aggVars, wrVars>>

\* node_batch_eval_fn returns and the worker builds the serialized examples
WorkerFinish ==
  /\ \E f \in Running :
       \E scores \in EvaluatorAnswers(Len(futures[f].children)) :
         futures' = [futures EXCEPT
                       ![f].state = "done",
                       ![f].scores = scores,
                       ![f].result = LinesToSerializedExample(futures[f].lines, scores)]
  /\ UNCHANGED <<board_database, batch_size, num_workers, index, lines,
                 output, writer_open, cur_future, gpc>>
  /\ UNCHANGED <<mirVars, aggVars, wrVars>>

\* node_batch_eval_fn raises: the future holds the exception
WorkerFails ==
  /\ \E f \in Running :
       futures' = [futures EXCEPT ![f].state = "failed"]
  /\ UNCHANGED <<board_database, batch_size, num_workers, index, lines,
                 output, writer_open, cur_future, gpc>>
  /\ UNCHANGED <<mirVars, aggVars, wrVars>>

\* as_completed(futures) yields a finished future that it has not yielded
\* yet (line 514) and cur_future.result() returns its list of records or
\* raises the exception of a failed future (line 515)
Collect ==
  /\ gpc = "collecting"
  /\ cur_future = NoFuture
  /\ \E f \in 1..Len(futures) :
       /\ futures[f].state \in {"done", "failed"}
       /\ ~futures[f].collected
       /\ futures' = [futures EXCEPT ![f].collected = TRUE]
       /\ IF futures[f].state = "done"
            THEN /\ gpc' = gpc
                 /\ cur_future' = IF futures[f].result = <<>>
                                    THEN NoFuture
                                    ELSE [future |-> f, written |-> 0]
            ELSE /\ gpc' = "failed"
                 /\ cur_future' = cur_future
  /\ UNCHANGED <<board_database, batch_size, num_workers, index, lines, output,
                 writer_open>>
  /\ UNCHANGED <<mirVars, aggVars, wrVars>>

NextRecordFromTheEnd(f, k) == futures[f].result[Len(futures[f].result) - k]

\* the record the loop over cur_future.result() takes after k records
NextRecord(f, k) == futures[f].result[k + 1]

\* one pass of the loop over cur_future.result(): writer.write(cur_str),
\* line 516
WriteRecord ==
  /\ gpc = "collecting"
  /\ cur_future # NoFuture
  /\ output' = Append(output, NextRecord(cur_future.future, cur_future.written))
  /\ cur_future' = IF cur_future.written + 1 = Len(futures[cur_future.future].result)
                     THEN NoFuture
                     ELSE [cur_future EXCEPT !.written = @ + 1]
  /\ UNCHANGED <<board_database, batch_size, num_workers, index, lines, futures,
                 writer_open, gpc>>
  /\ UNCHANGED <<mirVars, aggVars, wrVars>>

LoopEndsAtOnce == cur_future = NoFuture

\* as_completed(futures) is exhausted: every future was yielded and its
\* records were written
AllCollected ==
  /\ cur_future = NoFuture
  /\ \A f \in 1..Len(futures) : futures[f].collected

\* the loop over as_completed ends: the executor is shut down and the
\* writer closed (line 522)
CloseWriter ==
  /\ gpc = "collecting"
  /\ AllCollected
  /\ writer_open' = FALSE
  /\ gpc' = "closed"
  /\ UNCHANGED <<board_database, batch_size, num_workers, index, lines, futures,
                 output, cur_future>>
  /\ UNCHANGED <<mirVars, aggVars, wrVars>>

PipeNext == ReadLine \/ EndOfFile \/ WorkerStart \/ WorkerFinish \/ WorkerFails
              \/ Collect \/ WriteRecord \/ CloseWriter

SpecPipe == PipeInit /\ [][PipeNext]_vars

\* the steps of the main thread: the reading loop, then the collection loop,
\* then writer.close()
MainThread == ReadLine \/ EndOfFile \/ Collect \/ WriteRecord \/ CloseWriter

\* the steps of the threads of the pool; a call of node_batch_eval_fn ends,
\* by raising or by returning
PoolThreads == WorkerStart \/ WorkerFails \/ WorkerFinish

\* the run of the pipeline with its threads scheduled: the main thread takes
\* its next step when it has one, and the pool runs the batches handed to it
SpecPipeFair ==
  /\ PipeInit
  /\ [][PipeNext]_vars
  /\ WF_vars(MainThread)
  /\ WF_vars(PoolThreads)

(***************************************************************************)
(* The canonicalizer on Black-to-move positions.                           *)
(***************************************************************************)
\* the boards with Black to move that the recorded games reach
BlackBoards ==
  { PushAll(StartPos, SubSeq(GameMoves[g], 1, n)) :
      g \in GameIds, n \in {1, 3} }

\* well-formed Black-to-move positions: any castling rights, and no
\* en-passant square or one on the third rank
BlackPositions ==
  { [b EXCEPT !.castling = c, !.ep = e] :
      b \in BlackBoards, c \in SUBSET {"K","Q","k","q"},
      e \in {NoSquare} \cup 16..23 }

\* a comma-joined White-to-move result read again as a Black-to-move FEN
AsBlackFen(s) == Join([Split(s, ",") EXCEPT ![2] = <<"b">>], " ")

MirInit ==
  /\ AggIdle
  /\ WrIdle
  /\ PipeIdle
  /\ mq \in BlackPositions
  /\ mstage = "start"
  /\ monce = <<>> /\ mtwice = <<>> /\ mkonce = <<>> /\ mktwice = <<>>
  /\ mstored = {} /\ mkeyP = <<>> /\ mkeyQ = <<>>

MirrorOnce ==
  /\ mstage = "start"
  /\ monce' = BlackFenToWhite(mq)
  /\ mkonce' = MakeFenWhite(Fen(mq))
  /\ mstage' = "once"
  /\ UNCHANGED <<mq, mtwice, mktwice, mstored, mkeyP, mkeyQ>>
  /\ UNCHANGED <<aggVars, wrVars, pipeVars>>

MirrorTwice ==
  /\ mstage = "once"
  /\ mtwice' = BlackFenToWhite(ParseFen(AsBlackFen(monce)))
  /\ mktwice' = MakeFenWhite(AsBlackFen(mkonce))
  /\ mstage' = "twice"
  /\ UNCHANGED <<mq, monce, mkonce, mstored, mkeyP, mkeyQ>>
  /\ UNCHANGED <<aggVars, wrVars, pipeVars>>

MirrorKeys ==
  /\ mstage = "twice"
  /\ \E stored \in SUBSET {0, 1, 2, 3} :
       /\ mstored' = stored
       /\ mkeyP' = WhiteMoveString(ColorMirror(mq), TRUE, stored)
       /\ mkeyQ' = WhiteMoveString(mq, TRUE, stored)
  /\ mstage' = "keyed"
  /\ UNCHANGED <<mq, monce, mtwice, mkonce, mktwice>>
  /\ UNCHANGED <<aggVars, wrVars, pipeVars>>

MirNext == MirrorOnce \/ MirrorTwice \/ MirrorKeys

SpecMirror == MirInit /\ [][MirNext]_vars

(***************************************************************************)
(* Properties of the aggregator.                                           *)
(***************************************************************************)
\* every ply of the input: the file, the game in the file, the ply in the game
Occurrences ==
  UNION { UNION { { <<fi, gi, p>> : p \in 1..Len(GameMoves[filenames[fi][gi]]) } :
                    gi \in 1..Len(filenames[fi]) } :
            fi \in 1..Len(filenames) }

OccMove(o) == GameMoves[filenames[o[1]][o[2]]][o[3]]

\* the position before a ply when its game is walked from the fresh
\* starting position
OccBoard(o) ==
  PushAll(StartPos, SubSeq(GameMoves[filenames[o[1]][o[2]]], 1, o[3] - 1))

OccKey(o) ==
  WhiteMoveString(OccBoard(o), switch_black_move_to_white, fen_elements_stored)

\* some pre-filter returns true for the ply
OccVetoed(o) ==
  \E i \in 1..Len(to_collect_filters) :
    PreFilter(to_collect_filters[i], OccBoard(o), OccMove(o))

\* the (key, move, count) triples that depend on the bag of games only: the
\* count of (key, move) is the number of plies, not vetoed, that play the
\* move from a position with that key
ExpectedTriples ==
  LET kept == {o \in Occurrences : ~OccVetoed(o)}
      km == [o \in kept |-> <<OccKey(o), OccMove(o)>>]
  IN { <<km[o][1], km[o][2], Cardinality({x \in kept : km[x] = km[o]})>> : o \in kept }

\* the corpus as (key, move, count) triples, its iteration order forgotten
CorpusTriples(cfg) ==
  UNION { { <<cfg[i].key, cfg[i].moves[j].move, cfg[i].moves[j].count>> :
              j \in 1..Len(cfg[i].moves) } : i \in 1..Len(cfg) }

\* no key twice in the corpus, no move twice in an entry
CorpusIsMapping(cfg) ==
  /\ \A i, j \in 1..Len(cfg) : cfg[i].key = cfg[j].key => i = j
  /\ \A i \in 1..Len(cfg) : \A j, k \in 1..Len(cfg[i].moves) :
       cfg[i].moves[j].move = cfg[i].moves[k].move => j = k

\* C1: whatever the order of the files and of the games in them, the
\* aggregation ends with the same keys and the same move -> count mapping
\* under every key: both are determined by the bag of games alone, each game
\* being walked from the fresh starting position.
C1_AggregationCommutes ==
  apc = "collected" =>
    /\ CorpusIsMapping(configs)
    /\ CorpusTriples(configs) = ExpectedTriples

\* two different games that share their first move, given in two files with
\* the later game of the list first, have been aggregated without filters:
\* the shared move has the count 2
C1_Witness ==
  /\ apc = "collected"
  /\ filenames = << <<2>>, <<1>> >>
  /\ to_collect_filters = <<>>
  /\ \E t \in CorpusTriples(configs) : t[2] = Move(12, 28) /\ t[3] = 2

\* C7: a ply for which some pre-filter returns true leaves the corpus
\* unchanged and still advances the walked position by its move; a game all
\* of whose plies are vetoed so adds nothing to the corpus and is walked to
\* its final position.
C7_VetoLeavesCorpus ==
  /\ [][ ( /\ apc = "collect"
           /\ pidx <= Len(CurGame)
           /\ \E i \in 1..Len(to_collect_filters) :
                PreFilter(to_collect_filters[i], the_board, CurGame[pidx]) )
         => ( /\ configs' = configs
              /\ the_board' = Push(the_board, CurGame[pidx]) ) ]_vars
  /\ []( ( /\ apc = "collect"
           /\ pidx > Len(CurGame)
           /\ vetoed = Len(CurGame) )
         => ( /\ the_board = PushAll(StartPos, CurGame)
              /\ (fidx = 1 /\ gidx = 1 => configs = <<>>) ) )

\* the pre-filter chain vetoed every ply of a game of four plies: the walk is
\* at the game's final position and the corpus is empty
C7_Witness ==
  /\ apc = "collect"
  /\ pidx > Len(CurGame)
  /\ Len(CurGame) = 4
  /\ vetoed = 4
  /\ the_board = PushAll(StartPos, CurGame)
  /\ the_board # StartPos
  /\ configs = <<>>

\* the number of pieces on the board of a key: the piece letters of its
\* piece-placement field
PiecesOnBoard(key) ==
  LET placement == Split(key, ",")[1]
  IN Cardinality({i \in 1..Len(placement) :
                    IsWhitePiece(placement[i]) \/ IsBlackPiece(placement[i])})

\* C11: the post-filter of n_man_filter_creator(n) returns true for an entry
\* exactly when the board of its key holds more than n pieces, whatever other
\* fields the key holds.
C11_PostFilterByMaterial ==
  apc = "collected" =>
    \A i \in 1..Len(configs) : \A j \in 1..Len(post_collection_filters) :
      PostFilter(post_collection_filters[j], configs[i].key, configs[i].moves)
        <=> (PiecesOnBoard(configs[i].key) > post_collection_filters[j].n)

\* the ply o comes before the ply p in the order of the walk
Before(o, p) ==
  \/ o[1] < p[1]
  \/ o[1] = p[1] /\ o[2] < p[2]
  \/ o[1] = p[1] /\ o[2] = p[2] /\ o[3] < p[3]

\* the plies the walk has consumed
Consumed ==
  IF apc = "collect"
    THEN {o \in Occurrences : Before(o, <<fidx, gidx, pidx>>)}
    ELSE Occurrences

RECURSIVE SumCounts(_)
SumCounts(moves) ==
  IF moves = <<>> THEN 0 ELSE Head(moves).count + SumCounts(Tail(moves))

RECURSIVE SumAllCounts(_)
SumAllCounts(cfg) ==
  IF cfg = <<>> THEN 0 ELSE SumCounts(Head(cfg).moves) + SumAllCounts(Tail(cfg))

\* the count of a move under a key, 0 when there is none
CountOf(cfg, key, move) ==
  LET hits == {t \in CorpusTriples(cfg) : t[1] = key /\ t[2] = move}
  IN IF hits = {} THEN 0 ELSE (CHOOSE t \in hits : TRUE)[3]

KeysOf(cfg) == { cfg[i].key : i \in 1..Len(cfg) }

SeqRange(q) == { q[i] : i \in 1..Len(q) }

\* C18: during aggregation every BoardInfo of the corpus holds a move and
\* every count is at least 1; the counts sum to the number of plies consumed
\* and not vetoed; a ply that is not vetoed raises the count of its move
\* under its key by 1 and changes no other count; no key leaves the corpus
\* before the post-filters run.
C18_CountInvariant ==
  /\ []( apc \in {"collect", "collected"} =>
           /\ \A i \in 1..Len(configs) :
                /\ Len(configs[i].moves) >= 1
                /\ \A j \in 1..Len(configs[i].moves) : configs[i].moves[j].count >= 1
           /\ CorpusIsMapping(configs)
           /\ SumAllCounts(configs) = Cardinality({o \in Consumed : ~OccVetoed(o)}) )
  /\ [][ ( /\ apc = "collect"
           /\ pidx <= Len(CurGame)
           /\ \A i \in 1..Len(to_collect_filters) :
                ~PreFilter(to_collect_filters[i], the_board, CurGame[pidx]) )
         => LET key == WhiteMoveString(the_board, switch_black_move_to_white,
                                       fen_elements_stored)
                move == CurGame[pidx]
            IN /\ CountOf(configs', key, move) = CountOf(configs, key, move) + 1
               /\ \A t \in CorpusTriples(configs) \cup CorpusTriples(configs') :
                    (t[1] # key \/ t[2] # move) =>
                      CountOf(configs', t[1], t[2]) = CountOf(configs, t[1], t[2]) ]_vars
  /\ [][ apc = "collect" => KeysOf(configs) \subseteq KeysOf(configs') ]_vars

\* two games that share their first move have been aggregated: its count is
\* 2 and the counts sum to the seven plies of the two games
C18_Witness ==
  /\ apc = "collected"
  /\ to_collect_filters = <<>>
  /\ Len(configs) >= 1
  /\ configs[1].moves[1].count = 2
  /\ SumAllCounts(configs) = 7

\* the first ply, in the order of the walk, that is not vetoed and whose
\* position has the key
FirstSeen(key) ==
  LET seen == {o \in Occurrences : ~OccVetoed(o) /\ OccKey(o) = key}
  IN CHOOSE o \in seen : \A x \in seen : x = o \/ Before(o, x)

\* C19: the corpus, while it is built and after the post-filters, holds its
\* keys in the order in which they were first seen in a ply that was not
\* vetoed; it is handed to the writer unchanged and the writer takes its
\* entries in that order.
C19_FirstObservationOrder ==
  /\ []( apc \in {"collect", "collected", "filtered"} =>
           LET seen == { <<o, OccKey(o)>> : o \in {o \in Occurrences : ~OccVetoed(o)} }
               first(key) ==
                 (CHOOSE p \in seen :
                    /\ p[2] = key
                    /\ \A x \in seen : x[2] = key => (x = p \/ Before(p[1], x[1])))[1]
               firsts == { <<i, first(configs[i].key)>> : i \in 1..Len(configs) }
           IN \A a, b \in firsts : a[1] < b[1] => Before(a[2], b[2]) )
  /\ [][ (apc \in {"filtered", "writing", "done", "error"}) => configs' = configs ]_vars
  /\ []( apc \in {"writing", "done", "error"} =>
           /\ \A d \in 1..Len(taken) : \A k \in 1..Len(taken[d]) :
                /\ taken[d][k] <= dict_iterator
                /\ k > 1 => taken[d][k] = taken[d][k - 1] + 1
           /\ last.dest # 0 => last.entry = dict_iterator )

\* the second game repeats the first game's first two positions and then
\* reaches a new one, a post-filter has deleted an entry, and the writer is
\* at the last entry of the corpus
C19_Witness ==
  /\ apc = "writing"
  /\ filenames = << <<1>>, <<2>> >>
  /\ post_collection_filters # <<>>
  /\ to_collect_filters = <<>>
  /\ Len(configs) >= 3
  /\ dict_iterator = Len(configs)
  /\ FirstSeen(configs[Len(configs)].key)[1] = 2

\* the entries of a corpus that no post-filter of the chain matches
Survivors(cfg) ==
  { e \in SeqRange(cfg) :
      \A j \in 1..Len(post_collection_filters) :
        ~PostFilter(post_collection_filters[j], e.key, e.moves) }

\* C20: no entry leaves the corpus while games are consumed; the one pass of
\* the post-filters, made when every game of every file has been consumed,
\* leaves exactly the entries that no post-filter matches, unchanged; the
\* corpus does not change afterwards and the data writer starts only after
\* the pass.
C20_PostFilterOnce ==
  /\ [][ apc = "collect" => KeysOf(configs) \subseteq KeysOf(configs') ]_vars
  /\ [][ apc = "collected" =>
           /\ SeqRange(configs') = Survivors(configs)
           /\ Len(configs') = Cardinality(Survivors(configs))
           /\ apc' = "filtered" ]_vars
  /\ [][ apc \notin {"collect", "collected"} => configs' = configs ]_vars
  /\ [][ (apc # "writing" /\ apc' = "writing") => apc = "filtered" ]_vars
  /\ []( apc \in {"collected", "filtered", "writing", "done", "error"} =>
           Consumed = Occurrences /\ fidx = Len(filenames)
             /\ gidx = Len(filenames[fidx]) )

\* the post-filter pass has deleted an entry of the corpus and kept others,
\* and the writer has started
C20_Witness ==
  /\ apc = "writing"
  /\ post_collection_filters # <<>>
  /\ Len(configs) >= 1
  /\ \E o \in Occurrences : ~OccVetoed(o) /\ OccKey(o) \notin KeysOf(configs)

(***************************************************************************)
(* Properties of the splitter / serializer.                                *)
(***************************************************************************)
\* floor(r * N) for the ratio of destination i: the k with k <= r * N < k + 1
SliceSize(i) ==
  CHOOSE k \in 0..number_of_boards :
    /\ k * file_ratios[i].den <= file_ratios[i].num * number_of_boards
    /\ file_ratios[i].num * number_of_boards < (k + 1) * file_ratios[i].den

RECURSIVE SliceStart(_)
\* the number of entries of the slices before that of destination i
SliceStart(i) == IF i = 1 THEN 0 ELSE SliceStart(i - 1) + SliceSize(i - 1)

\* the corpus positions a + 1 .. a + n, in order
Consecutive(a, n) == [j \in 1..n |-> a + j]

\* a plain destination holds the keys of the entries it was given, in order
PlainLinesAreKeys(i) ==
  ~for_deep_pink_loss[i] =>
    writers[i].lines = [j \in 1..Len(taken[i]) |-> configs[taken[i][j]].key \o <<"\n">>]

GivenAt(e) ==
  {p \in {<<i, k>> : i \in 1..Len(taken), k \in 1..number_of_boards} :
     /\ p[2] <= Len(taken[p[1]])
     /\ taken[p[1]][p[2]] = e}

\* C26: when the slice sizes floor(r_i * N) of the served destinations sum
\* to more than N, the writer never returns normally and never starts over
\* from the first entry: every entry is given out at most once, and when
\* the call has failed on the exhausted iterator each of the N entries has
\* been given out exactly once.
C26_OverSubscribedEndsInError ==
  (apc \in {"writing", "done", "error"} /\ SliceStart(ZipLen + 1) > number_of_boards) =>
    /\ apc # "done"
    /\ dict_iterator <= number_of_boards
    /\ \A e \in 1..number_of_boards : Cardinality(GivenAt(e)) <= 1
    /\ (apc = "writing" /\ dict_iterator = number_of_boards /\ left > 0) =>
         \A e \in 1..number_of_boards : Cardinality(GivenAt(e)) = 1
    /\ apc = "error" =>
         /\ dict_iterator = number_of_boards
         /\ left > 0
         /\ \A e \in 1..number_of_boards : Cardinality(GivenAt(e)) = 1

\* ratios 7/10 and 7/10 over a corpus of at least three entries: the call
\* has failed in the second destination with every entry given out
C26_Witness ==
  /\ apc = "error"
  /\ file_ratios = <<Ratio(7, 10), Ratio(7, 10)>>
  /\ number_of_boards >= 3
  /\ SliceStart(ZipLen + 1) > number_of_boards
  /\ didx = 2
  /\ Len(taken[1]) + Len(taken[2]) = number_of_boards

TopMoves(moves) ==
  { moves[j].move : j \in { j \in 1..Len(moves) :
                              \A k \in 1..Len(moves) : moves[k].count <= moves[j].count } }

C12_HandlesReleased ==
  apc \in {"done", "error"} =>
    \A i \in 1..Len(writers) : ~writers[i].open

\* the ratio list, the flag list and the list of output files have one length
SameLengths ==
  /\ Len(file_ratios) = Len(for_deep_pink_loss)
  /\ Len(file_ratios) = Len(writers)

\* C13: when the ratio list, the flag list and the list of output files do
\* not have the same length, the writer ends with an error and has opened
\* and written no file.
C13_MismatchFatalBeforeIO ==
  (apc \in {"writing", "done", "error"} /\ ~SameLengths) =>
    /\ apc = "error"
    /\ \A i \in 1..Len(writers) : ~writers[i].open /\ writers[i].lines = <<>>

\* the latest pass of the writer was over an entry of a plain destination
PlainPass ==
  /\ apc \in {"writing", "done", "error"}
  /\ last.dest # 0
  /\ ~for_deep_pink_loss[last.dest]

TripletPass ==
  /\ apc \in {"writing", "done", "error"}
  /\ last.dest # 0
  /\ for_deep_pink_loss[last.dest]

\* the board the triplet stage rebuilds from the key of the latest entry
LastBoard == ParseFen(CurrentLineToFen(configs[last.entry].key))

\* the third part, the negative's child, of the records of the latest pass
NegativeParts == { SubSeq(last.records[i], 129, 192) : i \in 1..Len(last.records) }

\* the encodings of the children of a set of moves of the latest board
ChildrenOf(moves) == { ChildEncoding(LastBoard, m) : m \in moves }

\* the legal moves of the latest board that are not captures and have no
\* count in the latest entry
QuietUnseenMoves ==
  { m \in SeqRange(LegalMoves(LastBoard)) :
      /\ ~IsCapture(LastBoard, m)
      /\ \A j \in 1..Len(configs[last.entry].moves) :
           configs[last.entry].moves[j].move # m }

\* C15 (as amended): when no comparison-move generator is supplied the
\* negatives of an entry are all the legal moves of the entry's board,
\* captures and recorded moves included; the legal moves that are not
\* captures and have no recorded count are the negatives under
\* my_comparison_move_generator.
C15_DefaultNegativesAllLegal ==
  TripletPass =>
    /\ comparison_move_generator = "legal_moves" =>
         NegativeParts = ChildrenOf(SeqRange(LegalMoves(LastBoard)))
    /\ comparison_move_generator = "my_comparison_move_generator" =>
         NegativeParts = ChildrenOf(QuietUnseenMoves)

\* an entry was expanded with the default generator and one of its negatives
\* is the child of a move that the entry records
C15_Witness ==
  /\ TripletPass
  /\ comparison_move_generator = "legal_moves"
  /\ \E j \in 1..Len(configs[last.entry].moves) :
       /\ configs[last.entry].moves[j].move \in SeqRange(LegalMoves(LastBoard))
       /\ ChildEncoding(LastBoard, configs[last.entry].moves[j].move) \in NegativeParts
       /\ ChildEncoding(LastBoard, configs[last.entry].moves[j].move)
            \notin ChildrenOf(QuietUnseenMoves)

\* C15 (as stated): when no comparison-move generator is supplied the
\* negatives of an entry are the legal moves of its board that are not
\* captures and have no recorded count.
C15_DefaultNegativesQuietUnseen ==
  (TripletPass /\ comparison_move_generator = "legal_moves") =>
    NegativeParts = ChildrenOf(QuietUnseenMoves)

\* the writer is about to take an entry for a triplet destination and the
\* comparison-move generator yields no move for it
NoNegativesNext ==
  /\ apc = "writing"
  /\ left > 0
  /\ dict_iterator < Len(configs)
  /\ for_deep_pink_loss[didx]
  /\ LET cur == configs[dict_iterator + 1]
     IN ComparisonMoves(comparison_move_generator,
                        ParseFen(CurrentLineToFen(cur.key)), cur.moves) = <<>>

C17_MovesInKeyFrame ==
  \A i \in 1..Len(configs) : \A j \in 1..Len(configs[i].moves) :
    IsWhitePiece(ParseFen(CurrentLineToFen(configs[i].key)).sq[configs[i].moves[j].move.from])

(***************************************************************************)
(* Properties of the canonicalizer.                                        *)
(***************************************************************************)
\* the piece-placement, castling-rights and en-passant fields of a
\* comma-joined FEN
KeyFieldsOf(s) == LET f == Split(s, ",") IN <<f[1], f[3], f[4]>>

\* C8: mirroring a Black-to-move position and then mirroring the result,
\* read as a Black-to-move position again, gives back the original
\* piece-placement, castling-rights and en-passant fields; this holds of
\* black_fen_to_white and of make_fen_white.
C8_DoubleMirror ==
  mstage \in {"twice", "keyed"} =>
    LET orig == FenFields(mq)
    IN /\ KeyFieldsOf(mtwice) = <<orig[1], orig[3], orig[4]>>
       /\ KeyFieldsOf(mktwice) = <<orig[1], orig[3], orig[4]>>

\* a position with one-sided castling rights and an en-passant square has
\* been mirrored twice
C8_Witness ==
  /\ mstage = "twice"
  /\ mq.castling = {"K", "q"}
  /\ mq.ep # NoSquare
  /\ KeyFieldsOf(monce) # KeyFieldsOf(mtwice)

\* C9: with switch_black_move_to_white enabled, a Black-to-move position and
\* the White-to-move position that is its color-mirror image get the same
\* key, for every stored field subset without the move counters.
C9_MirrorImagesShareKey ==
  mstage = "keyed" => mkeyP = mkeyQ

\* the keys of a mirror pair with castling rights of one color only and an
\* en-passant square were computed with placement, rights and en-passant
\* square stored
C9_Witness ==
  /\ mstage = "keyed"
  /\ mstored = {0, 2, 3}
  /\ mq.castling = {"K"}
  /\ mq.ep # NoSquare
  /\ ColorMirror(mq).turn = "w"
  /\ Len(mkeyQ) > 0

\* the castling rights of the other color, in the order K, Q, k, q
SwappedRights(pos) ==
  LET r == SelectSeq(<<"K","Q","k","q">>,
                     LAMBDA x : \E c \in pos.castling : SwapChar(c) = x)
  IN IF r = <<>> THEN <<"-">> ELSE r

\* the characters of K, Q, k, q, - present in a rights string when case is
\* ignored
CaseBlindRights(rights) ==
  SelectSeq(<<"K","Q","k","q","-">>,
            LAMBDA x : \E i \in 1..Len(rights) :
                          rights[i] = x \/ SwapChar(rights[i]) = x)

\* C10 (as amended): the castling-rights field of a canonicalized
\* Black-to-move position holds exactly the rights of the original with
\* their colors swapped (K for k, Q for q, k for K, q for Q), in the order
\* K, Q, k, q, and is "-" when the original has none.
C10_CastlingColorSwapped ==
  mstage # "start" =>
    /\ Split(monce, ",")[3] = SwappedRights(mq)
    /\ Split(mkonce, ",")[3] = SwappedRights(mq)

\* a position in which only White may castle, and only on the king side,
\* has been canonicalized: the result gives that right to Black
C10_Witness ==
  /\ mstage = "once"
  /\ mq.castling = {"K"}
  /\ Split(monce, ",")[3] = <<"k">>

\* C10 (as stated): the resulting castling-rights field consists of exactly
\* the characters of K, Q, k, q (or "-") that are present, compared
\* case-insensitively, in the original rights string.
C10_CastlingCaseInsensitive ==
  mstage # "start" =>
    Split(monce, ",")[3] = CaseBlindRights(CastlingField(mq))

(***************************************************************************)
(* Properties of the scored child-position pipeline.                       *)
(***************************************************************************)
\* the records of the output written for line l
RecordsOf(l) == {r \in 1..Len(output) : output[r].board = l}

\* C4: a run in which no worker fails ends with exactly one record for each
\* line of the input, the lines after the last full batch included.
C4_OneRecordPerLine ==
  gpc = "closed" =>
    /\ Len(output) = Len(board_database)
    /\ \A l \in 1..Len(board_database) : Cardinality(RecordsOf(l)) = 1

RECURSIVE SumSeq(_)
SumSeq(q) == IF q = <<>> THEN 0 ELSE q[1] + SumSeq(Tail(q))

\* the legal-move counts c_1..c_K of the batch of future f
CountsOf(f) ==
  [j \in 1..Len(futures[f].lines) |-> board_database[futures[f].lines[j]]]

\* the evaluator has answered future f with one score for each child
Answered(f) ==
  /\ futures[f].state = "done"
  /\ Len(futures[f].scores) = Len(futures[f].children)

\* C5: when the evaluator returns one score for each child of a batch with
\* legal-move counts c_1..c_K, it was given c_1+...+c_K children in the order
\* of the lines, and the record of line i holds the c_i moves of the line and
\* the c_i scores of its own children, in order.
C5_ScoreCountSplit ==
  \A f \in 1..Len(futures) :
    Answered(f) =>
      LET batch == futures[f].lines
          kids == futures[f].children
          recs == futures[f].result
      IN /\ Len(kids) = SumSeq(CountsOf(f))
         /\ \A p, q \in 1..Len(kids) :
              p < q => \/ kids[p][1] < kids[q][1]
                       \/ kids[p][1] = kids[q][1] /\ kids[p][2] < kids[q][2]
         /\ Len(recs) = Len(batch)
         /\ \A j \in 1..Len(batch) :
              /\ recs[j].board = batch[j]
              /\ recs[j].moves = [k \in 1..CountsOf(f)[j] |-> k]
              /\ Len(recs[j].move_scores) = CountsOf(f)[j]
              /\ \A k \in 1..CountsOf(f)[j] :
                   \E p \in 1..Len(kids) :
                     /\ kids[p] = <<batch[j], k>>
                     /\ recs[j].move_scores[k] = futures[f].scores[p]

\* a batch of three positions with two, no and two legal moves was answered
\* with four scores and split
C5_Witness ==
  \E f \in 1..Len(futures) :
    /\ Answered(f)
    /\ CountsOf(f) = <<2, 0, 2>>
    /\ futures[f].result[3].move_scores = <<3, 4>>

\* C6: a batch whose evaluator answer has not one score for each child
\* produces no record: no finished batch and no written record has a score
\* sequence that differs in length from what was submitted.
C6_MismatchIsFatal ==
  /\ \A f \in 1..Len(futures) :
       futures[f].state = "done" =>
         Len(futures[f].scores) = Len(futures[f].children)
  /\ \A r \in 1..Len(output) :
       Len(output[r].moves) = Len(output[r].move_scores)

\* the batches submitted to the pool and not yet finished
InFlight == {f \in 1..Len(futures) : futures[f].state \in {"pending", "running"}}

\* C21 (as amended): the batches being run by worker threads never exceed
\* the worker count; the reading loop is never held back, so the batches
\* submitted and not yet finished are bounded by the number of batches only.
C21_RunningBounded ==
  /\ Cardinality(Running) <= num_workers
  /\ Running \subseteq InFlight
  /\ Cardinality(InFlight) <= Len(futures)
  /\ (gpc = "reading" /\ index < Len(board_database)) => ENABLED ReadLine

\* with one worker, two batches have been submitted and neither is finished:
\* one runs, one waits in the queue of the pool
C21_Witness ==
  /\ gpc = "reading"
  /\ num_workers = 1
  /\ Cardinality(Running) = 1
  /\ Cardinality(InFlight) = 2

\* C21 (as stated): the batches submitted and not yet finished never exceed
\* the worker count.
C21_InFlightBounded == Cardinality(InFlight) <= num_workers

\* the batch whose worker built the record
BatchOf(rec) ==
  CHOOSE f \in 1..Len(futures) :
    \E j \in 1..Len(futures[f].lines) : futures[f].lines[j] = rec.board

\* C22: the output changes only when the collection loop writes the next
\* record of the future it holds, and the records of one batch form one
\* contiguous run of the output, in the order of their input lines.
C22_SingleWriterContiguous ==
  /\ [][ (output' # output) =>
           /\ gpc = "collecting"
           /\ cur_future # NoFuture
           /\ futures' = futures
           /\ output' = Append(output,
                               futures[cur_future.future].result[cur_future.written + 1]) ]_vars
  /\ [](\A i \in 1..Len(output) : \A j \in (i + 1)..Len(output) :
          BatchOf(output[i]) = BatchOf(output[j]) =>
            /\ output[i].board < output[j].board
            /\ \A k \in i..j : BatchOf(output[k]) = BatchOf(output[i]))

\* the second batch finished first: its record is written before the two
\* records of the first batch
C22_Witness ==
  /\ Len(futures) = 2
  /\ Len(output) = 3
  /\ BatchOf(output[1]) = 2
  /\ BatchOf(output[2]) = 1
  /\ BatchOf(output[3]) = 1
  /\ output[2].board = 1
  /\ output[3].board = 2

\* the worker of batch f failed: node_batch_eval_fn raised, or answered with
\* a number of scores that is not the number of children
WorkerFailed(f) ==
  \/ futures[f].state = "failed"
  \/ /\ futures[f].state = "done"
     /\ Len(futures[f].scores) # Len(futures[f].children)

\* C23: when the worker of a batch fails, by an evaluator error or by a
\* mismatched score count, no record of that batch is ever in the output,
\* the run does not end normally, and once the collection loop has observed
\* a failure the output holds nothing of a failed batch and is not closed
\* as a finished file.
C23_WorkerFailureFatal ==
  \A f \in 1..Len(futures) :
    WorkerFailed(f) =>
      /\ \A r \in 1..Len(output) : BatchOf(output[r]) # f
      /\ gpc # "closed"
      /\ futures[f].collected => gpc = "failed"

\* the places of the output that hold the record of line j of batch f
WrittenAt(f, j) ==
  {r \in 1..Len(output) : output[r] = futures[f].result[j]}

\* every record of every submitted batch is in the output exactly once
EveryBatchWrittenOnce ==
  /\ \A f \in 1..Len(futures) :
       /\ Len(futures[f].result) = Len(futures[f].lines)
       /\ \A j \in 1..Len(futures[f].lines) : Cardinality(WrittenAt(f, j)) = 1
  /\ \A r \in 1..Len(output) :
       \E f \in 1..Len(futures) : \E j \in 1..Len(futures[f].result) :
         r \in WrittenAt(f, j)

\* C24: no record is ever written twice, and a run in which no evaluator
\* call raises reaches, whatever the order in which the batches complete,
\* the end with the writer closed and every submitted batch written exactly
\* once.
C24_EveryBatchWrittenOnce ==
  /\ [](\A r1 \in 1..Len(output) : \A r2 \in 1..Len(output) :
          output[r1].board = output[r2].board => r1 = r2)
  /\ <>( \/ \E f \in 1..Len(futures) : futures[f].state = "failed"
         \/ /\ gpc = "closed"
            /\ ~writer_open
            /\ EveryBatchWrittenOnce )

\* the run has ended with the writer closed after the second batch was
\* collected before the first
C24_Witness ==
  /\ gpc = "closed"
  /\ ~writer_open
  /\ Len(futures) = 2
  /\ EveryBatchWrittenOnce
  /\ output[1].board = 3

\* C25: every submitted batch holds exactly batch_size consecutive input
\* lines, and no line is in two batches.
C25_FixedSizeBatches ==
  /\ \A f \in 1..Len(futures) :
       /\ Len(futures[f].lines) = batch_size
       /\ \A j \in 1..(Len(futures[f].lines) - 1) :
            futures[f].lines[j + 1] = futures[f].lines[j] + 1
  /\ \A f \in 1..Len(futures) : \A g \in 1..Len(futures) :
       f # g => SeqRange(futures[f].lines) \cap SeqRange(futures[g].lines) = {}

====
